---------------------------- MODULE Spec2Model ----------------------------
(***************************************************************************)
(* State-machine model of the BK Spiritual Chart backend.                  *)
(*                                                                         *)
(* The repository holds several iterations of the same Express/PostgreSQL  *)
(* server.  Two of them implement the daily-record upsert and the progress *)
(* aggregation:                                                            *)
(*   - src/server.js            (handlers suffixed _server below)          *)
(*   - src/unnamed/part_000     (lines 1-418, handlers suffixed _part000)  *)
(* Both are modelled, side by side, over the same database state.          *)
(*                                                                         *)
(* Tables are sets of rows.  The SERIAL id and created_at columns of       *)
(* daily_records are read by no handler and are left out; the ids of       *)
(* members and points are kept, with the sequences that issue them.        *)
(* Calendar days are day numbers (day 0 = 2023-01-01); the 'YYYY-MM-DD'    *)
(* strings the handlers exchange with PostgreSQL are [y, m, d] records,    *)
(* formatted by Fmt and parsed by ParseDate.                               *)
(***************************************************************************)
EXTENDS Integers, Sequences, FiniteSets, TLC

VARIABLES
    members,        \* table members: set of [id, mobile]
    members_seq,    \* last value issued by members_id_seq
    points,         \* table points: set of [id, text, order_num]
    points_seq,     \* last value issued by points_id_seq
    daily_records,  \* table daily_records: set of [member_id, point_id, date, effort]
    today,          \* the calendar day of the server's clock (new Date())
    pending,        \* per client: the request whose query is in flight (or NoReq)
    res,            \* the response of the request handled last
    resetCodes,     \* the Map resetCodes of server.js: per key, [code, expiresAt]
    passwords,      \* the password column of admins and members, per account
    now             \* Date.now(), in minutes

vars == <<members, members_seq, points, points_seq, daily_records, today,
          pending, res, resetCodes, passwords, now>>

\* the state of the password reset
auth == <<resetCodes, passwords, now>>

----------------------------------------------------------------------------
(* Bounds of the model *)

\* members_id_seq is not advanced past this value
MaxMemberId == 2
\* points_id_seq is not advanced past this value
MaxPointId == 2
\* no INSERT grows daily_records past this many rows
MaxRecords == 2
\* the default points of initDatabase: the source inserts ten texts
NumDefaultPoints == 1

----------------------------------------------------------------------------
(* The calendar: what JavaScript's Date and PostgreSQL's DATE compute *)

IsLeap(y) == (y % 4 = 0 /\ y % 100 # 0) \/ y % 400 = 0

DaysInYear(y) == IF IsLeap(y) THEN 366 ELSE 365

DaysInMonth(y, m) ==
    CASE m \in {4, 6, 9, 11} -> 30
      [] m = 2 -> IF IsLeap(y) THEN 29 ELSE 28
      [] OTHER -> 31

RECURSIVE DaysBeforeYear(_)
DaysBeforeYear(y) ==
    IF y <= 2023 THEN 0 ELSE DaysBeforeYear(y - 1) + DaysInYear(y - 1)

RECURSIVE DaysBeforeMonth(_, _)
DaysBeforeMonth(y, m) ==
    IF m <= 1 THEN 0 ELSE DaysBeforeMonth(y, m - 1) + DaysInMonth(y, m - 1)

\* new Date(y, m, dom): the day number of a civil date.  As in JavaScript the
\* day of the month may lie outside the month (0, -5, 32): the result is the
\* day that many days from the first of the month.
MakeDay(y, m, dom) == DaysBeforeYear(y) + DaysBeforeMonth(y, m) + dom - 1

RECURSIVE YearFrom(_, _)
YearFrom(n, y) == IF n < DaysInYear(y) THEN y ELSE YearFrom(n - DaysInYear(y), y + 1)

RECURSIVE MonthFrom(_, _, _)
MonthFrom(n, y, m) ==
    IF n < DaysInMonth(y, m) THEN m ELSE MonthFrom(n - DaysInMonth(y, m), y, m + 1)

\* getFullYear / getMonth()+1 / getDate of a day number (n >= 0)
GetFullYear(n) == YearFrom(n, 2023)
GetMonth(n) == MonthFrom(n - DaysBeforeYear(GetFullYear(n)), GetFullYear(n), 1)
GetDate(n) == n - MakeDay(GetFullYear(n), GetMonth(n), 1) + 1

\* fmt (part_000) and toISOString().split('T')[0] (server.js): 'YYYY-MM-DD'
Fmt(n) == [y |-> GetFullYear(n), m |-> GetMonth(n), d |-> GetDate(n)]

\* PostgreSQL's cast of a 'YYYY-MM-DD' parameter to DATE
ValidDate(s) == s.m \in 1..12 /\ s.d \in 1..DaysInMonth(s.y, s.m)
ParseDate(s) == MakeDay(s.y, s.m, s.d)

Ymd(y, m, d) == [y |-> y, m |-> m, d |-> d]


----------------------------------------------------------------------------
(* Rational numbers: the value of AVG(effort) *)

RECURSIVE Gcd(_, _)
Gcd(a, b) == IF b = 0 THEN a ELSE Gcd(b, a % b)

\* n/d in lowest terms, d > 0, n >= 0
Rat(n, d) == LET g == Gcd(n, d) IN [num |-> n \div g, den |-> d \div g]

Zero == [num |-> 0, den |-> 1]

\* Math.round: the nearest integer, halves rounded up
MathRound(q) == [num |-> (2 * q.num + q.den) \div (2 * q.den), den |-> 1]

----------------------------------------------------------------------------
(* Requests and responses *)

Clients == {1, 2}

NoDate == [y |-> 0, m |-> 0, d |-> 0]

\* A request in flight.  For a reset-password request account is the key of the
\* account, text the new password and stage the await the handler is suspended
\* at; superseded, read by no action, records that a new code was issued for
\* the account after the handler accepted the code of the request.
NoReq == [variant |-> "none", m |-> 0, p |-> 0, date |-> NoDate, completed |-> 0,
          e |-> 0, overtaken |-> -1, text |-> "",
          account |-> << >>, stage |-> "", superseded |-> FALSE]

\* A response.  op names the route and status is the HTTP status.  For an upsert,
\* m, p and completed repeat the request, and d and e are the date and effort of
\* the row RETURNING * gave back; m, period and progress belong to the progress
\* routes.  Two fields record history for the properties below and are read by
\* no action: old is the effort the upsert found stored for its triple (-1: no
\* row), and overtaken is the effort written to the same triple by another
\* request that completed while this one was in flight (-1: none).  For the
\* password routes message is the message of the answer and account the key of
\* the request; correct, read by no action, records whether the code of a
\* reset-password request equalled the code stored for the account.
Response(op, status) ==
    [op |-> op, status |-> status, m |-> 0, p |-> 0, completed |-> 0, d |-> 0, e |-> 0,
     old |-> -1, overtaken |-> -1,
     period |-> "", progress |-> << >>,
     message |-> "", account |-> << >>, correct |-> FALSE]

----------------------------------------------------------------------------
(* Accounts *)

Mobiles == {"m1", "m2"}

\* the keys of resetCodes: `admin_${username}` and `member_${mobile}`
AdminKey(username) == <<"admin", username>>
MemberKey(mobile) == <<"member", mobile>>

\* the default admin of initDatabase, and the members that may register
Accounts == {AdminKey("AmeerMushak")} \cup {MemberKey(mobile) : mobile \in Mobiles}

\* resetCodes.get(key) of a key that is not in the Map
NoCode == [code |-> "", expiresAt |-> 0]

----------------------------------------------------------------------------
(* SQL *)

MemberIds == {r.id : r \in members}
PointIds == {r.id : r \in points}

\* the rows of a table with the given (member_id, point_id, date)
RowsOf(rows, m, p, d) ==
    {r \in rows : r.member_id = m /\ r.point_id = p /\ r.date = d}

NewRow(m, p, d, e) == [member_id |-> m, point_id |-> p, date |-> d, effort |-> e]

\* Faulty variants of the upsert statement, used to show that the properties
\* below depend on it: a plain INSERT into a table without the UNIQUE
\* constraint; ON CONFLICT DO NOTHING; DO UPDATE SET effort = effort + $4;
\* DO UPDATE SET effort = GREATEST(effort, $4).
UpsertSql_InsertOnly(rows, m, p, d, e) == rows \cup {NewRow(m, p, d, e)}

UpsertSql_DoNothing(rows, m, p, d, e) ==
    IF RowsOf(rows, m, p, d) = {} THEN rows \cup {NewRow(m, p, d, e)} ELSE rows

UpsertSql_Accumulate(rows, m, p, d, e) ==
    IF RowsOf(rows, m, p, d) = {}
    THEN rows \cup {NewRow(m, p, d, e)}
    ELSE {IF r \in RowsOf(rows, m, p, d) THEN [r EXCEPT !.effort = r.effort + e] ELSE r :
            r \in rows}

UpsertSql_Greatest(rows, m, p, d, e) ==
    IF RowsOf(rows, m, p, d) = {}
    THEN rows \cup {NewRow(m, p, d, e)}
    ELSE {IF r \in RowsOf(rows, m, p, d) /\ r.effort < e
          THEN [r EXCEPT !.effort = e] ELSE r : r \in rows}

\* INSERT INTO daily_records ... ON CONFLICT (member_id, point_id, date)
\*   DO UPDATE SET effort = $4
\* applied to the table, the foreign keys being satisfied
UpsertSql(rows, m, p, d, e) ==
    IF RowsOf(rows, m, p, d) = {}
    THEN rows \cup {NewRow(m, p, d, e)}
    ELSE {IF r \in RowsOf(rows, m, p, d) THEN [r EXCEPT !.effort = e] ELSE r : r \in rows}

\* a variant of the table without the two REFERENCES clauses
UpsertRejected_NoForeignKeys(m, p, date) ==
    \/ date = NoDate
    \/ ~ValidDate(date)

\* the statement is rejected: a NULL or malformed date (date DATE NOT NULL), or a
\* member_id / point_id that REFERENCES no row
UpsertRejected(m, p, date) ==
    \/ date = NoDate
    \/ ~ValidDate(date)
    \/ m \notin MemberIds
    \/ p \notin PointIds

\* variants of the foreign keys without ON DELETE CASCADE
CascadeMember_Keep(rows, id) == rows
CascadePoint_Keep(rows, id) == rows

\* ON DELETE CASCADE
CascadeMember(rows, id) == {r \in rows : r.member_id # id}
CascadePoint(rows, id) == {r \in rows : r.point_id # id}

\* SELECT MAX(order_num) FROM points, NULL taken as 0 by (max || 0)
MaxOrder == IF points = {} THEN 0
            ELSE CHOOSE n \in {r.order_num : r \in points} :
                     \A r \in points : r.order_num <= n

----------------------------------------------------------------------------
(* Initial state: the database as initDatabase / ensureSchemaAndDefaults      *)
(* leaves it, with no member yet and the default points numbered from 1       *)

DefaultPoints(n) ==
    {[id |-> i, text |-> "default", order_num |-> i] : i \in 1..n}

InitOn(days, catalog) ==
    /\ members = {}
    /\ members_seq = 0
    /\ points = catalog
    /\ points_seq = Cardinality(catalog)
    /\ daily_records = {}
    /\ today \in days
    /\ pending = [c \in Clients |-> NoReq]
    /\ res = Response("none", 0)
    /\ resetCodes = [k \in Accounts |-> NoCode]
    /\ passwords = [k \in Accounts |-> "initial"]
    /\ now = 0

----------------------------------------------------------------------------
(* Members and points *)

\* POST /api/members/register: one id per successful INSERT.  Every
\* registration carries the same password, written "initial".
PostRegister(mobile) ==
    /\ IF \E r \in members : r.mobile = mobile
       THEN /\ res' = Response("register", 400)
            /\ UNCHANGED <<members, members_seq, passwords>>
       ELSE /\ members' = members \cup {[id |-> members_seq + 1, mobile |-> mobile]}
            /\ members_seq' = members_seq + 1
            /\ passwords' = [passwords EXCEPT ![MemberKey(mobile)] = "initial"]
            /\ res' = Response("register", 201)
    /\ UNCHANGED <<points, points_seq, daily_records, today, resetCodes, now, pending>>

\* a variant of the members table without UNIQUE on mobile
MobileTaken_NoUnique(rows, mobile) == FALSE

\* mobile VARCHAR(20) UNIQUE NOT NULL: an INSERT of this mobile is rejected
MobileTaken(rows, mobile) == \E r \in rows : r.mobile = mobile

\* the queries of a registration; a set of them is the queries that fail
RegisterQueries == {"SELECT", "INSERT"}

\* POST /api/members/register of server.js when queries may fail: pool.query
\* throws and the catch block answers 500
PostRegister_server(mobile, failed) ==
    /\ IF "SELECT" \in failed
       THEN /\ res' = Response("register", 500)
            /\ UNCHANGED <<members, members_seq, passwords>>
       ELSE IF \E r \in members : r.mobile = mobile
       THEN /\ res' = Response("register", 400)
            /\ UNCHANGED <<members, members_seq, passwords>>
       ELSE IF "INSERT" \in failed
       THEN /\ res' = Response("register", 500)
            /\ UNCHANGED <<members, members_seq, passwords>>
       ELSE /\ members' = members \cup {[id |-> members_seq + 1, mobile |-> mobile]}
            /\ members_seq' = members_seq + 1
            /\ passwords' = [passwords EXCEPT ![MemberKey(mobile)] = "initial"]
            /\ res' = Response("register", 201)
    /\ UNCHANGED <<points, points_seq, daily_records, today, resetCodes, now, pending>>

\* safeQuery of the second program of part_000: the rows of the query, and no
\* rows when the query throws
safeQuery(rows, throws) == IF throws THEN {} ELSE rows

\* POST /api/members/register of the second program of part_000, whose queries
\* go through safeQuery.  The INSERT throws when the query fails or when the
\* mobile is taken (UNIQUE, after an id was drawn); the handler answers 201 with
\* result.rows[0] whatever safeQuery returned.
PostRegister_safeQuery(mobile, failed) ==
    /\ LET existing == safeQuery({r \in members : r.mobile = mobile},
                                 "SELECT" \in failed)
       IN IF existing # {}
          THEN /\ res' = Response("register", 400)
               /\ UNCHANGED <<members, members_seq, passwords>>
          ELSE /\ IF "INSERT" \in failed
                  THEN UNCHANGED <<members, members_seq, passwords>>
                  ELSE IF MobileTaken(members, mobile)
                  THEN /\ members_seq' = members_seq + 1
                       /\ UNCHANGED <<members, passwords>>
                  ELSE /\ members' = members \cup
                               {[id |-> members_seq + 1, mobile |-> mobile]}
                       /\ members_seq' = members_seq + 1
                       /\ passwords' =
                              [passwords EXCEPT ![MemberKey(mobile)] = "initial"]
               /\ res' = Response("register", 201)
    /\ UNCHANGED <<points, points_seq, daily_records, today, resetCodes, now, pending>>

\* POST /api/members/register with its queries apart: the handler looks the
\* mobile up and answers 400 if it finds it; else it hashes the password, other
\* requests may run, and then it inserts the row.  The INSERT draws an id from
\* members_id_seq even when the UNIQUE constraint rejects the row.
BeginRegister(c, mobile) ==
    /\ pending[c] = NoReq
    /\ IF \E r \in members : r.mobile = mobile
       THEN /\ res' = Response("register", 400)
            /\ UNCHANGED pending
       ELSE /\ pending' = [pending EXCEPT
                 ![c] = [NoReq EXCEPT !.variant = "register", !.text = mobile]]
            /\ UNCHANGED res
    /\ UNCHANGED <<members, members_seq, points, points_seq, daily_records, today, auth>>

CompleteRegister(c) ==
    /\ pending[c].variant = "register"
    /\ members_seq' = members_seq + 1
    /\ IF MobileTaken(members, pending[c].text)
       THEN /\ res' = Response("register", 500)
            /\ UNCHANGED <<members, passwords>>
       ELSE /\ members' = members \cup
                    {[id |-> members_seq + 1, mobile |-> pending[c].text]}
            /\ passwords' = [passwords EXCEPT ![MemberKey(pending[c].text)] = "initial"]
            /\ res' = Response("register", 201)
    /\ pending' = [pending EXCEPT ![c] = NoReq]
    /\ UNCHANGED <<points, points_seq, daily_records, today, resetCodes, now>>

\* DELETE /api/admin/delete-member/:id
DeleteMember(id) ==
    /\ members' = {r \in members : r.id # id}
    /\ daily_records' = CascadeMember(daily_records, id)
    /\ res' = Response("delete-member", 200)
    /\ UNCHANGED <<members_seq, points, points_seq, today, auth, pending>>

\* POST /api/admin/points
AddPoint(text) ==
    /\ points' = points \cup
           {[id |-> points_seq + 1, text |-> text, order_num |-> MaxOrder + 1]}
    /\ points_seq' = points_seq + 1
    /\ res' = Response("add-point", 201)
    /\ UNCHANGED <<members, members_seq, daily_records, today, auth, pending>>

\* POST /api/admin/points with its two queries apart: the handler reads
\* MAX(order_num), other requests may run, then it inserts the row.
BeginAddPoint(c, text) ==
    /\ pending[c] = NoReq
    /\ pending' = [pending EXCEPT
                       ![c] = [NoReq EXCEPT !.variant = "add-point",
                                            !.text = text, !.e = MaxOrder + 1]]
    /\ UNCHANGED <<members, members_seq, points, points_seq, daily_records, today, auth, res>>

CompleteAddPoint(c) ==
    /\ pending[c].variant = "add-point"
    /\ points' = points \cup
           {[id |-> points_seq + 1, text |-> pending[c].text, order_num |-> pending[c].e]}
    /\ points_seq' = points_seq + 1
    /\ pending' = [pending EXCEPT ![c] = NoReq]
    /\ res' = Response("add-point", 201)
    /\ UNCHANGED <<members, members_seq, daily_records, today, auth>>

\* a variant of the update statement that also renumbers the point
UpdateSql_Renumber(rows, id, text) ==
    {IF r.id = id THEN [r EXCEPT !.text = text, !.order_num = 1] ELSE r : r \in rows}

\* UPDATE points SET text = $1 WHERE id = $2
UpdateSql(rows, id, text) ==
    {IF r.id = id THEN [r EXCEPT !.text = text] ELSE r : r \in rows}

\* PUT /api/admin/points/:id
UpdatePoint(id, text) ==
    /\ points' = UpdateSql(points, id, text)
    /\ res' = Response("update-point", 200)
    /\ UNCHANGED <<members, members_seq, points_seq, daily_records, today, auth, pending>>

\* DELETE /api/admin/points/:id
DeletePoint(id) ==
    /\ points' = {r \in points : r.id # id}
    /\ daily_records' = CascadePoint(daily_records, id)
    /\ res' = Response("delete-point", 200)
    /\ UNCHANGED <<members, members_seq, points_seq, today, auth, pending>>

\* GET /api/debug/reset-all of part_000: DROP TABLE of the four tables, then
\* ensureSchemaAndDefaults creates them again, empty but for the default points
ResetAll ==
    /\ members' = {}
    /\ members_seq' = 0
    /\ points' = DefaultPoints(NumDefaultPoints)
    /\ points_seq' = NumDefaultPoints
    /\ daily_records' = {}
    /\ passwords' = [k \in Accounts |-> "initial"]
    /\ res' = Response("reset-all", 200)
    /\ UNCHANGED <<today, resetCodes, now, pending>>

\* DELETE /api/debug/clear-points of part_000: DELETE FROM points, which
\* cascades to the rows of every point
ClearPoints ==
    /\ points' = {}
    /\ daily_records' = {r \in daily_records : r.point_id \notin PointIds}
    /\ res' = Response("clear-points", 200)
    /\ UNCHANGED <<members, members_seq, points_seq, today, auth, pending>>

----------------------------------------------------------------------------
(* Password reset by code (server.js) *)

\* 15 * 60 * 1000 milliseconds, in minutes
FifteenMinutes == 15

\* SELECT * FROM admins WHERE username = $1 / FROM members WHERE mobile = $1
\* finds a row: the default admin, or a registered member
AccountExists(key) ==
    IF key[1] = "admin" THEN key[2] = "AmeerMushak"
    ELSE \E r \in members : r.mobile = key[2]

\* POST /api/admin/forgot-password and POST /api/members/forgot-password; code
\* is what generateResetCode returns
ForgotPassword(key, code) ==
    /\ IF ~AccountExists(key)
       THEN /\ res' = [Response("forgot-password", 404) EXCEPT !.account = key]
            /\ UNCHANGED <<resetCodes, pending>>
       ELSE /\ resetCodes' = [resetCodes EXCEPT
                   ![key] = [code |-> code, expiresAt |-> now + FifteenMinutes]]
            /\ pending' = [c \in Clients |->
                   IF pending[c].variant = "reset-password" /\ pending[c].account = key
                   THEN [pending[c] EXCEPT !.superseded = TRUE]
                   ELSE pending[c]]
            /\ res' = [Response("forgot-password", 200) EXCEPT !.account = key]
    /\ UNCHANGED <<members, members_seq, points, points_seq, daily_records, today,
                   passwords, now>>

\* variant of the expiry test: a stored code never expires
Expired_Never(storedData) == FALSE

\* Date.now() > storedData.expiresAt
Expired(storedData) == now > storedData.expiresAt

\* UPDATE admins SET password = $1 WHERE username = $2 / UPDATE members ...
\* WHERE mobile = $2: no row is changed if the account has none
UpdatePassword(key, newPassword) ==
    IF AccountExists(key) THEN [passwords EXCEPT ![key] = newPassword] ELSE passwords

\* a variant of the handler below without the comparison of the codes
ResetPassword_AnyCode(key, code, newPassword) ==
    /\ LET storedData == resetCodes[key]
           answer(status, message) ==
               [Response("reset-password", status) EXCEPT
                   !.message = message, !.account = key,
                   !.correct = (storedData # NoCode /\ storedData.code = code)]
       IN IF storedData = NoCode
          THEN /\ res' = answer(400, "No reset request found")
               /\ UNCHANGED <<resetCodes, passwords>>
          ELSE IF Expired(storedData)
          THEN /\ resetCodes' = [resetCodes EXCEPT ![key] = NoCode]
               /\ res' = answer(400, "Reset code expired")
               /\ UNCHANGED passwords
          ELSE /\ passwords' = UpdatePassword(key, newPassword)
               /\ resetCodes' = [resetCodes EXCEPT ![key] = NoCode]
               /\ res' = answer(200, "Password reset successful")
    /\ UNCHANGED <<members, members_seq, points, points_seq, daily_records, today,
                   pending, now>>

\* POST /api/admin/reset-password and POST /api/members/reset-password
ResetPassword(key, code, newPassword) ==
    /\ LET storedData == resetCodes[key]
           answer(status, message) ==
               [Response("reset-password", status) EXCEPT
                   !.message = message, !.account = key,
                   !.correct = (storedData # NoCode /\ storedData.code = code)]
       IN IF storedData = NoCode
          THEN /\ res' = answer(400, "No reset request found")
               /\ UNCHANGED <<resetCodes, passwords>>
          ELSE IF Expired(storedData)
          THEN /\ resetCodes' = [resetCodes EXCEPT ![key] = NoCode]
               /\ res' = answer(400, "Reset code expired")
               /\ UNCHANGED passwords
          ELSE IF storedData.code # code
          THEN /\ res' = answer(400, "Invalid reset code")
               /\ UNCHANGED <<resetCodes, passwords>>
          ELSE /\ passwords' = UpdatePassword(key, newPassword)
               /\ resetCodes' = [resetCodes EXCEPT ![key] = NoCode]
               /\ res' = answer(200, "Password reset successful")
    /\ UNCHANGED <<members, members_seq, points, points_seq, daily_records, today,
                   pending, now>>

\* The reset-password routes with their awaits apart.  The handler examines the
\* request in one piece and answers 400 as above; else it awaits bcrypt.hash,
\* and other requests may run.
BeginResetPassword(c, key, code, newPassword) ==
    /\ pending[c] = NoReq
    /\ LET storedData == resetCodes[key]
           answer(status, message) ==
               [Response("reset-password", status) EXCEPT
                   !.message = message, !.account = key,
                   !.correct = (storedData # NoCode /\ storedData.code = code)]
       IN IF storedData = NoCode
          THEN /\ res' = answer(400, "No reset request found")
               /\ UNCHANGED <<resetCodes, pending>>
          ELSE IF Expired(storedData)
          THEN /\ resetCodes' = [resetCodes EXCEPT ![key] = NoCode]
               /\ res' = answer(400, "Reset code expired")
               /\ UNCHANGED pending
          ELSE IF storedData.code # code
          THEN /\ res' = answer(400, "Invalid reset code")
               /\ UNCHANGED <<resetCodes, pending>>
          ELSE /\ pending' = [pending EXCEPT
                      ![c] = [NoReq EXCEPT !.variant = "reset-password",
                                           !.account = key, !.text = newPassword,
                                           !.stage = "bcrypt.hash"]]
               /\ UNCHANGED <<resetCodes, res>>
    /\ UNCHANGED <<members, members_seq, points, points_seq, daily_records, today,
                   passwords, now>>

\* the hash is there and the database runs the UPDATE; the handler awaits the
\* result of the query
WritePassword(c) ==
    /\ pending[c].variant = "reset-password"
    /\ pending[c].stage = "bcrypt.hash"
    /\ passwords' = UpdatePassword(pending[c].account, pending[c].text)
    /\ pending' = [pending EXCEPT ![c].stage = "pool.query"]
    /\ UNCHANGED <<members, members_seq, points, points_seq, daily_records, today,
                   res, resetCodes, now>>

\* the query has returned: resetCodes.delete and the answer
CompleteResetPassword(c) ==
    /\ pending[c].variant = "reset-password"
    /\ pending[c].stage = "pool.query"
    /\ resetCodes' = [resetCodes EXCEPT ![pending[c].account] = NoCode]
    /\ res' = [Response("reset-password", 200) EXCEPT
                  !.message = "Password reset successful",
                  !.account = pending[c].account, !.correct = TRUE]
    /\ pending' = [pending EXCEPT ![c] = NoReq]
    /\ UNCHANGED <<members, members_seq, points, points_seq, daily_records, today,
                   passwords, now>>

\* time passes
Tick(minutes) ==
    /\ now' = now + minutes
    /\ UNCHANGED <<members, members_seq, points, points_seq, daily_records, today,
                   pending, res, resetCodes, passwords>>

----------------------------------------------------------------------------
(* The daily-record upsert *)

\* completed || 0
OrZero(completed) == IF completed = 0 THEN 0 ELSE completed

\* if (!date || !pointId) of part_000
MissingFields(pointId, date) == date = NoDate \/ pointId = 0

\* a request on its way to the query: e is the value bound to $4
Request(variant, m, p, date, completed, e) ==
    [variant |-> variant, m |-> m, p |-> p, date |-> date, completed |-> completed,
     e |-> e, overtaken |-> -1, text |-> "",
     account |-> << >>, stage |-> "", superseded |-> FALSE]

\* pool.query of the upsert and the rest of the handler: the statement runs
\* atomically in the database; a rejected statement throws, and the catch block
\* answers 500 with the table unchanged.
RunUpsert(req) ==
    IF UpsertRejected(req.m, req.p, req.date)
    THEN /\ res' = Response("daily", 500)
         /\ UNCHANGED daily_records
    ELSE LET d == ParseDate(req.date)
             found == RowsOf(daily_records, req.m, req.p, d)
             returned == CHOOSE r \in RowsOf(daily_records', req.m, req.p, d) : TRUE
         IN /\ daily_records' = UpsertSql(daily_records, req.m, req.p, d, req.e)
            /\ res' = [Response("daily", 200) EXCEPT
                          !.m = req.m, !.p = req.p, !.completed = req.completed,
                          !.d = returned.date, !.e = returned.effort,
                          !.old = IF found = {} THEN -1
                                  ELSE (CHOOSE r \in found : TRUE).effort,
                          !.overtaken = req.overtaken]

\* POST /api/members/:memberId/daily of server.js, start to finish
PostDaily_server(m, p, date, completed) ==
    /\ RunUpsert(Request("server", m, p, date, completed, completed))
    /\ UNCHANGED <<members, members_seq, points, points_seq, today, auth, pending>>

\* POST /api/members/:memberId/daily of part_000, start to finish
PostDaily_part000(m, p, date, completed) ==
    /\ IF MissingFields(p, date)
       THEN /\ res' = Response("daily", 400)
            /\ UNCHANGED daily_records
       ELSE RunUpsert(Request("part000", m, p, date, completed, OrZero(completed)))
    /\ UNCHANGED <<members, members_seq, points, points_seq, today, auth, pending>>

\* The same two handlers with the await of pool.query as a suspension point:
\* the handler runs to the query, other requests may run, the query completes.
BeginDaily_server(c, m, p, date, completed) ==
    /\ pending[c] = NoReq
    /\ pending' = [pending EXCEPT
                       ![c] = Request("server", m, p, date, completed, completed)]
    /\ UNCHANGED <<members, members_seq, points, points_seq, daily_records, today, auth, res>>

BeginDaily_part000(c, m, p, date, completed) ==
    /\ pending[c] = NoReq
    /\ IF MissingFields(p, date)
       THEN /\ res' = Response("daily", 400)
            /\ UNCHANGED pending
       ELSE /\ pending' = [pending EXCEPT
                 ![c] = Request("part000", m, p, date, completed, OrZero(completed))]
            /\ UNCHANGED res
    /\ UNCHANGED <<members, members_seq, points, points_seq, daily_records, today, auth>>

CompleteDaily(c) ==
    /\ pending[c].variant \in {"server", "part000"}
    /\ RunUpsert(pending[c])
    /\ pending' = [k \in Clients |->
          IF k = c THEN NoReq
          ELSE IF /\ pending[k] # NoReq
                  /\ ~UpsertRejected(pending[c].m, pending[c].p, pending[c].date)
                  /\ pending[k].m = pending[c].m
                  /\ pending[k].p = pending[c].p
                  /\ pending[k].date = pending[c].date
               THEN [pending[k] EXCEPT !.overtaken = pending[c].completed]
               ELSE pending[k]]
    /\ UNCHANGED <<members, members_seq, points, points_seq, today, auth>>

----------------------------------------------------------------------------
(* The progress aggregation *)

ToLowerCase(s) ==
    CASE s = "WEEKLY" -> "weekly"
      [] OTHER -> s

\* computeRangeForPeriod of part_000
computeRangeForPeriod(period) ==
    LET y == GetFullYear(today)
        m == GetMonth(today)
        start == CASE period = "yearly" -> MakeDay(y, 1, 1)
                   [] period = "monthly" -> MakeDay(y, m, 1)
                   [] period = "weekly" -> MakeDay(y, m, GetDate(today) - 6)
                   [] OTHER -> today
    IN [start |-> Fmt(start), end |-> Fmt(today)]

\* a variant of DaysOf in which a token that is none of the four is a week
DaysOf_WeeklyDefault(period) ==
    CASE period = "weekly" -> 7
      [] period = "monthly" -> 30
      [] period = "yearly" -> 365
      [] period = "daily" -> 1
      [] OTHER -> 7

\* let days = 1; if ... of server.js
DaysOf(period) ==
    CASE period = "weekly" -> 7
      [] period = "monthly" -> 30
      [] period = "yearly" -> 365
      [] OTHER -> 1

\* startDate.setDate(startDate.getDate() - days + 1); toISOString().split('T')[0]
StartDateStr(period) ==
    Fmt(MakeDay(GetFullYear(today), GetMonth(today),
                GetDate(today) - DaysOf(period) + 1))

RECURSIVE SumEffort(_)
SumEffort(rows) ==
    IF rows = {} THEN 0
    ELSE LET r == CHOOSE x \in rows : TRUE
         IN r.effort + SumEffort(rows \ {r})

\* COALESCE(AVG(effort), 0)
AvgEffort(rows) ==
    IF rows = {} THEN Zero ELSE Rat(SumEffort(rows), Cardinality(rows))

\* the rows the LEFT JOIN of part_000 matches to a point:
\*   dr.point_id = p.id AND dr.member_id = $1 AND dr.date BETWEEN $2 AND $3
Joined_part000(memberId, pointId, range) ==
    LET lo == ParseDate(range.start)
        hi == ParseDate(range.end)
    IN {r \in daily_records :
          /\ r.point_id = pointId
          /\ r.member_id = memberId
          /\ lo <= r.date
          /\ r.date <= hi}

\* the rows of the per-point query of server.js:
\*   WHERE member_id = $1 AND point_id = $2 AND date >= $3
Selected_server(memberId, pointId, startDateStr) ==
    LET lo == ParseDate(startDateStr)
    IN {r \in daily_records :
          /\ r.member_id = memberId
          /\ r.point_id = pointId
          /\ r.date >= lo}

\* the sequences in which a query may return the rows of a table
RowOrders(rows) ==
    {s \in [1..Cardinality(rows) -> rows] :
        \A i, j \in DOMAIN s : i # j => s[i] # s[j]}

\* ORDER BY p.order_num, p.id
ByOrderNumId(a, b) ==
    a.order_num < b.order_num \/ (a.order_num = b.order_num /\ a.id <= b.id)

\* a variant of the ordering of server.js: ORDER BY id
ByOrderNum_ById(a, b) == a.id <= b.id

\* ORDER BY order_num
ByOrderNum(a, b) == a.order_num <= b.order_num

\* FROM points p ... ORDER BY p.order_num, p.id
PointsByOrderNumId ==
    {s \in RowOrders(points) :
        \A i, j \in DOMAIN s : i < j => ByOrderNumId(s[i], s[j])}

\* SELECT * FROM points ORDER BY order_num
PointsByOrderNum ==
    {s \in RowOrders(points) :
        \A i, j \in DOMAIN s : i < j => ByOrderNum(s[i], s[j])}

\* one entry of the progress list of part_000: percentage: Number(r.avg_effort)
Entry_part000(point, memberId, range) ==
    [point_id |-> point.id, text |-> point.text,
     percentage |-> AvgEffort(Joined_part000(memberId, point.id, range))]

\* one entry of the progress list of server.js: percentage: Math.round(avgEffort)
Entry_server(point, memberId, startDateStr) ==
    [point_id |-> point.id, text |-> point.text,
     percentage |-> MathRound(AvgEffort(Selected_server(memberId, point.id, startDateStr)))]

\* Storage reads that fail during a progress request are named by a set: 0 is
\* the read of the catalog (the only query of part_000), a point id is the read
\* of the rows of that point (server.js).
CatalogRead == 0

\* what an awaited promise settles to
Fulfilled(v) == [rejected |-> FALSE, value |-> v]
Rejected == [rejected |-> TRUE, value |-> << >>]

\* Promise.all: rejected as soon as one promise is, else the values in order
PromiseAll_AllSettled(results) ==
    Fulfilled(LET kept == SelectSeq(results, LAMBDA r : ~r.rejected)
              IN [i \in DOMAIN kept |-> kept[i].value])

PromiseAll(results) ==
    IF \E i \in DOMAIN results : results[i].rejected
    THEN Rejected
    ELSE Fulfilled([i \in DOMAIN results |-> results[i].value])

\* the lists the query of part_000 may return for a member and a period
ProgressOf_part000(memberId, period) ==
    LET range == computeRangeForPeriod(ToLowerCase(period))
    IN {[i \in DOMAIN ps |-> Entry_part000(ps[i], memberId, range)] :
          ps \in PointsByOrderNumId}

\* the lists server.js may build for a member and a period: the catalog in the
\* order the first query returned it, one per-point query each
ProgressOf_server(memberId, period, failed) ==
    LET startDateStr == StartDateStr(period)
    IN {PromiseAll([i \in DOMAIN ps |->
                      IF ps[i].id \in failed THEN Rejected
                      ELSE Fulfilled(Entry_server(ps[i], memberId, startDateStr))]) :
          ps \in PointsByOrderNum}

\* GET /api/members/:memberId/progress/:period of part_000
GetProgress_part000(memberId, period, failed) ==
    /\ IF CatalogRead \in failed
       THEN res' = [Response("progress_part000", 500) EXCEPT
                      !.m = memberId, !.period = period]
       ELSE \E list \in ProgressOf_part000(memberId, period) :
              res' = [Response("progress_part000", 200) EXCEPT
                        !.m = memberId, !.period = period, !.progress = list]
    /\ UNCHANGED <<members, members_seq, points, points_seq, daily_records, today, auth, pending>>

\* GET /api/members/:memberId/progress/:period of server.js
GetProgress_server(memberId, period, failed) ==
    /\ IF CatalogRead \in failed
       THEN res' = [Response("progress_server", 500) EXCEPT
                      !.m = memberId, !.period = period]
       ELSE \E all \in ProgressOf_server(memberId, period, failed) :
              IF all.rejected
              THEN res' = [Response("progress_server", 500) EXCEPT
                             !.m = memberId, !.period = period]
              ELSE res' = [Response("progress_server", 200) EXCEPT
                             !.m = memberId, !.period = period,
                             !.progress = all.value]
    /\ UNCHANGED <<members, members_seq, points, points_seq, daily_records, today, auth, pending>>

----------------------------------------------------------------------------
(* Inputs of the requests *)

Texts == {"added"}

\* ids a request may name: 0 is never issued by a sequence, and is falsy
MemberIdInputs == 1..MaxMemberId
PointIdInputs == 0..MaxPointId

D_2023_12_31 == Ymd(2023, 12, 31)
D_2024_02_29 == Ymd(2024, 2, 29)
D_2024_03_01 == Ymd(2024, 3, 1)
D_2024_03_07 == Ymd(2024, 3, 7)
D_2024_03_08 == Ymd(2024, 3, 8)
D_2024_03_31 == Ymd(2024, 3, 31)

Periods == {"daily", "weekly", "monthly", "yearly", "WEEKLY", "hourly"}

----------------------------------------------------------------------------
(* Spec: the store under whole requests, one at a time *)

StoreDates == {D_2024_03_07, D_2024_03_08, NoDate}
StoreEfforts == {40, 90}

Init == InitOn({ParseDate(D_2024_03_07)}, DefaultPoints(NumDefaultPoints))

Next ==
    \/ \E mobile \in {"m1"} :
          PostRegister(mobile) /\ members_seq' <= MaxMemberId
    \/ \E id \in MemberIdInputs : DeleteMember(id)
    \/ \E text \in Texts :
          AddPoint(text) /\ points_seq' <= MaxPointId
    \/ \E id \in PointIdInputs : DeletePoint(id)
    \/ \E m \in MemberIdInputs, p \in PointIdInputs, date \in StoreDates,
          completed \in StoreEfforts :
          PostDaily_server(m, p, date, completed)
            /\ Cardinality(daily_records') <= MaxRecords
    \/ \E m \in MemberIdInputs, p \in PointIdInputs, date \in StoreDates,
          completed \in StoreEfforts :
          PostDaily_part000(m, p, date, completed)
            /\ Cardinality(daily_records') <= MaxRecords

Spec == Init /\ [][Next]_vars

----------------------------------------------------------------------------
(* SpecConc: two clients whose upserts overlap at the await of pool.query *)

ConcPoints == {1, 2}
ConcDates == {D_2024_03_07}
ConcEfforts == {40, 90}

InitConc == InitOn({ParseDate(D_2024_03_07)}, DefaultPoints(2))

NextConc ==
    \/ \E mobile \in {"m1"} :
          PostRegister(mobile) /\ members_seq' <= 1
    \/ \E c \in Clients, p \in ConcPoints, date \in ConcDates, completed \in ConcEfforts :
          BeginDaily_server(c, 1, p, date, completed)
    \/ \E c \in Clients, p \in ConcPoints \cup {0}, date \in ConcDates,
          completed \in ConcEfforts : BeginDaily_part000(c, 1, p, date, completed)
    \/ \E c \in Clients : CompleteDaily(c)

SpecConc == InitConc /\ [][NextConc]_vars

----------------------------------------------------------------------------
(* SpecAgg: upserts of one member and progress requests, on several days *)

\* no INSERT of SpecAgg grows daily_records past this many rows
MaxAggRecords == 2

AggToday == {ParseDate(D_2024_03_07), ParseDate(D_2024_03_31)}
AggDates == {D_2023_12_31, D_2024_02_29, D_2024_03_01, D_2024_03_07, D_2024_03_08}
AggEfforts == {1, 2}
AggPoints == {1, 2}

InitAgg == InitOn(AggToday, DefaultPoints(2))

NextAgg ==
    \/ \E mobile \in {"m1"} :
          PostRegister(mobile) /\ members_seq' <= 1
    \/ \E p \in AggPoints, date \in AggDates, completed \in AggEfforts :
          PostDaily_part000(1, p, date, completed)
            /\ Cardinality(daily_records') <= MaxAggRecords
    \/ \E m \in {1, 2}, period \in Periods : GetProgress_part000(m, period, {})
    \/ \E m \in {1, 2}, period \in Periods : GetProgress_server(m, period, {})

SpecAgg == InitAgg /\ [][NextAgg]_vars

----------------------------------------------------------------------------
(* SpecAvg: as SpecAgg, on one day and with every record dated inside every  *)
(* window that either variant computes for weekly, monthly and yearly         *)

AvgDates == {D_2024_03_01, D_2024_03_07}

InitAvg == InitOn({ParseDate(D_2024_03_07)}, DefaultPoints(2))

NextAvg ==
    \/ \E mobile \in {"m1"} :
          PostRegister(mobile) /\ members_seq' <= 1
    \/ \E p \in AggPoints, date \in AvgDates, completed \in AggEfforts :
          PostDaily_server(1, p, date, completed)
            /\ Cardinality(daily_records') <= MaxAggRecords
    \/ \E m \in {1, 2}, period \in Periods : GetProgress_part000(m, period, {})
    \/ \E m \in {1, 2}, period \in Periods : GetProgress_server(m, period, {})

SpecAvg == InitAvg /\ [][NextAvg]_vars

----------------------------------------------------------------------------
(* Properties of the daily record store *)

\* the last request was an upsert that the database accepted
Upserted == res.op = "daily" /\ res.status = 200

\* the rows stored for the triple of the last upsert
Stored == RowsOf(daily_records, res.m, res.p, res.d)

\* C1: after any sequence of upsert, delete-member, delete-point and add-point
\* requests, daily_records holds at most one row for each
\* (member_id, point_id, date).
C1_UniqueTriple ==
    \A r1, r2 \in daily_records :
        (r1.member_id = r2.member_id /\ r1.point_id = r2.point_id /\ r1.date = r2.date)
            => r1 = r2

\* An upsert has met a row of its own triple, while a row of another triple is
\* stored beside it; before that a point was added and a member deleted (the
\* one mobile of Spec was registered a second time).
C1_Witness ==
    /\ Upserted
    /\ res.old # -1
    /\ res.old # res.completed
    /\ Cardinality(daily_records) = 2
    /\ points_seq > Cardinality(DefaultPoints(NumDefaultPoints))
    /\ members_seq > 1

\* C2: an upsert on a triple that already has a row replaces the stored effort
\* with exactly the effort of the request: afterwards the triple has a single
\* row, and its effort is the new value, whatever the old one was.
C2_LastWriteWins ==
    (Upserted /\ res.old # -1) =>
        Stored = {NewRow(res.m, res.p, res.d, res.completed)}

\* upsert(m, p, d, 40) and later upsert(m, p, d, 90): the stored effort is 90
C2_Witness ==
    /\ Upserted
    /\ res.old = 40
    /\ res.completed = 90
    /\ \E r \in Stored : r.effort = 90

\* the request handled in this step repeats the upsert handled just before it
SameUpsertAgain ==
    /\ Upserted
    /\ res'.op = "daily"
    /\ <<res'.m, res'.p, res'.completed>> = <<res.m, res.p, res.completed>>
    /\ \/ PostDaily_server(res.m, res.p, Fmt(res.d), res.completed)
       \/ PostDaily_part000(res.m, res.p, Fmt(res.d), res.completed)

\* C3: the upsert is idempotent: the same (memberId, pointId, date, effort)
\* applied a second time, directly after the first, leaves daily_records as the
\* first left it, with exactly one row for the triple, carrying that effort.
C3_Idempotent ==
    [][SameUpsertAgain =>
         /\ daily_records' = daily_records
         /\ RowsOf(daily_records', res.m, res.p, res.d)
              = {NewRow(res.m, res.p, res.d, res.completed)}]_vars

\* an upsert has found the effort it carries already stored for its triple
C3_Witness ==
    /\ Upserted
    /\ res.old = res.completed
    /\ Stored = {NewRow(res.m, res.p, res.d, res.completed)}

\* C4: when two upserts of the same triple are in flight together, then in
\* whichever order their storage writes complete the store holds exactly one
\* row for the triple, with the effort of the write that completed last.
C4_ConcurrentLastWriteWins ==
    (Upserted /\ res.overtaken # -1) =>
        Stored = {NewRow(res.m, res.p, res.d, res.completed)}

\* both requests have completed; the one that completed last carried another
\* effort than the one that completed while it was in flight
C4_Witness ==
    /\ Upserted
    /\ res.overtaken # -1
    /\ res.overtaken # res.completed
    /\ \A c \in Clients : pending[c] = NoReq
    /\ Stored = {NewRow(res.m, res.p, res.d, res.completed)}

----------------------------------------------------------------------------
(* Properties of the progress aggregation *)

\* the last request was a progress request for one of the four periods
Progressed(period) ==
    /\ res.op \in {"progress_part000", "progress_server"}
    /\ res.status = 200
    /\ res.period = period

RecognizedPeriods == {"daily", "weekly", "monthly", "yearly"}

\* the window of a period as the specification defines it, [start, end] with
\* end = today
InWindow(period, d) ==
    CASE period = "daily" -> d = today
      [] period = "weekly" -> today - 6 <= d /\ d <= today
      [] period = "monthly" -> /\ GetFullYear(d) = GetFullYear(today)
                               /\ GetMonth(d) = GetMonth(today)
                               /\ d <= today
      [] period = "yearly" -> GetFullYear(d) = GetFullYear(today) /\ d <= today

\* the rows of a member and a point
RowsFor(m, p) == {r \in daily_records : r.member_id = m /\ r.point_id = p}

\* the rows of a member and a point dated inside the window of a period
Matching(m, p, period) == {r \in RowsFor(m, p) : InWindow(period, r.date)}

\* the rows whose efforts the last progress request averaged for a point
Averaged(p) ==
    IF res.op = "progress_server"
    THEN Selected_server(res.m, p, StartDateStr(res.period))
    ELSE Joined_part000(res.m, p, computeRangeForPeriod(ToLowerCase(res.period)))

Entries == {res.progress[i] : i \in DOMAIN res.progress}

\* C5: for every member and period the progress list has exactly one entry per
\* point of the catalog, and every point without a row of that member inside
\* the window has percentage 0.
C5_ZeroFill ==
    \A period \in RecognizedPeriods : Progressed(period) =>
        /\ Len(res.progress) = Cardinality(points)
        /\ {e.point_id : e \in Entries} = PointIds
        /\ \A e \in Entries :
              Matching(res.m, e.point_id, period) = {} => e.percentage = Zero

\* C6: for every point with a row inside the window, the percentage is the
\* exact mean of the efforts of the rows inside the window, not rounded.
C6_ExactMean ==
    \A period \in RecognizedPeriods : Progressed(period) =>
        \A e \in Entries :
            LET rows == Matching(res.m, e.point_id, period)
            IN rows # {} => e.percentage = Rat(SumEffort(rows), Cardinality(rows))

\* C7: for period daily exactly the rows dated today are averaged: no row dated
\* before today or after today contributes.
C7_DailyWindow ==
    Progressed("daily") =>
        \A p \in PointIds : Averaged(p) = {r \in RowsFor(res.m, p) : r.date = today}

\* C8: for period weekly exactly the rows dated in [today - 6, today] are
\* averaged: a row dated today - 6 contributes, a row dated today - 7 does not.
C8_WeeklyWindow ==
    Progressed("weekly") =>
        \A p \in PointIds :
            Averaged(p) = {r \in RowsFor(res.m, p) : today - 6 <= r.date /\ r.date <= today}

\* C9: for period monthly the rows of the current calendar month up to today
\* are averaged, and no row dated in an earlier calendar month is.
C9_MonthlyWindow ==
    Progressed("monthly") =>
        \A p \in PointIds : \A r \in RowsFor(res.m, p) :
            LET sameMonth == /\ GetFullYear(r.date) = GetFullYear(today)
                             /\ GetMonth(r.date) = GetMonth(today)
                earlierMonth == \/ GetFullYear(r.date) < GetFullYear(today)
                                \/ /\ GetFullYear(r.date) = GetFullYear(today)
                                   /\ GetMonth(r.date) < GetMonth(today)
            IN /\ (sameMonth /\ r.date <= today) => r \in Averaged(p)
               /\ earlierMonth => r \notin Averaged(p)

\* C10: for period yearly no row dated in a previous calendar year is averaged.
C10_YearlyWindow ==
    Progressed("yearly") =>
        \A p \in PointIds : \A r \in RowsFor(res.m, p) :
            GetFullYear(r.date) < GetFullYear(today) => r \notin Averaged(p)

----------------------------------------------------------------------------
(* SpecProg: progress requests whose storage reads may fail, over the rows of *)
(* one member who may be deleted, on one day                                  *)

ProgDates == {D_2024_03_01, D_2024_03_07}
ProgFaults == {{}, {CatalogRead}, {1}}

InitProg == InitOn({ParseDate(D_2024_03_07)}, DefaultPoints(2))

NextProg ==
    \/ \E mobile \in {"m1"} :
          PostRegister(mobile) /\ members_seq' <= 1
    \/ DeleteMember(1)
    \/ \E p \in AggPoints, date \in ProgDates, completed \in AggEfforts :
          PostDaily_part000(1, p, date, completed)
            /\ Cardinality(daily_records') <= MaxAggRecords
    \/ \E m \in {1, 2}, period \in Periods, failed \in ProgFaults :
          GetProgress_part000(m, period, failed)
    \/ \E m \in {1, 2}, period \in Periods, failed \in ProgFaults :
          GetProgress_server(m, period, failed)

SpecProg == InitProg /\ [][NextProg]_vars

----------------------------------------------------------------------------
(* Properties of the progress requests *)

\* the lists a successful progress request of server.js may answer
ListsOf_server(memberId, period) ==
    {all.value : all \in ProgressOf_server(memberId, period, {})}

\* a step that handles a progress request for the given period, no read
\* failing, answers 200 with a list that the same request for daily may answer
AnsweredAsDaily_part000(period) ==
    (res'.period = period /\ GetProgress_part000(res'.m, period, {}))
        => /\ res'.status = 200
           /\ res'.progress \in ProgressOf_part000(res'.m, "daily")

AnsweredAsDaily_server(period) ==
    (res'.period = period /\ GetProgress_server(res'.m, period, {}))
        => /\ res'.status = 200
           /\ res'.progress \in ListsOf_server(res'.m, "daily")

\* C11 as stated: every period token other than daily, weekly, monthly and
\* yearly is answered successfully, with the result of period daily.
C11_UnrecognizedIsDaily ==
    [][\A period \in Periods \ RecognizedPeriods :
          AnsweredAsDaily_part000(period) /\ AnsweredAsDaily_server(period)]_vars

\* C11 amended: part_000 compares the token in lower case, so there only a
\* token whose lower-case form is none of the four is answered as daily;
\* server.js answers every token other than the four as daily.
C11_UnrecognizedLowerCaseIsDaily ==
    [][/\ \A period \in {q \in Periods : ToLowerCase(q) \notin RecognizedPeriods} :
            AnsweredAsDaily_part000(period)
       /\ \A period \in Periods \ RecognizedPeriods :
            AnsweredAsDaily_server(period)]_vars

\* an unknown token has been answered with the daily list, which differs from
\* the weekly list of the same member
C11_Witness ==
    /\ res.status = 200
    /\ res.period = "hourly"
    /\ \/ /\ res.op = "progress_part000"
          /\ res.progress \in ProgressOf_part000(res.m, "daily")
          /\ res.progress \notin ProgressOf_part000(res.m, "weekly")
       \/ /\ res.op = "progress_server"
          /\ res.progress \in ListsOf_server(res.m, "daily")
          /\ res.progress \notin ListsOf_server(res.m, "weekly")

----------------------------------------------------------------------------
(* SpecCat: the catalog under add-point requests that overlap between their   *)
(* two queries, delete-point, and progress requests                           *)

\* points_id_seq of SpecCat is not advanced past this value
MaxCatPointId == 4

InitCat == InitOn({ParseDate(D_2024_03_07)}, DefaultPoints(1))

NextCat ==
    \/ \E c \in Clients : BeginAddPoint(c, "added")
    \/ \E c \in Clients : CompleteAddPoint(c) /\ points_seq' <= MaxCatPointId
    \/ \E id \in 1..MaxCatPointId : DeletePoint(id)
    \/ GetProgress_part000(1, "daily", {})
    \/ GetProgress_server(1, "daily", {})

SpecCat == InitCat /\ [][NextCat]_vars

\* the order value of the catalog point with the given id, after the step
OrderOf(id) == (CHOOSE r \in points' : r.id = id).order_num

\* C12: the entries of a progress list are in ascending order of the order
\* values of their points, whatever the ids of the points and the order in
\* which they were inserted.
C12_CatalogOrder ==
    [][(\/ res'.op = "progress_part000" /\ GetProgress_part000(res'.m, res'.period, {})
        \/ res'.op = "progress_server" /\ GetProgress_server(res'.m, res'.period, {}))
         => \A i, j \in DOMAIN res'.progress :
               i < j => OrderOf(res'.progress[i].point_id)
                          <= OrderOf(res'.progress[j].point_id)]_vars

\* a progress list whose order is not the order of the ids: a point inserted
\* later, with the larger id, comes first because its order value is smaller
C12_Witness ==
    /\ res.op \in {"progress_part000", "progress_server"}
    /\ res.status = 200
    /\ \E i, j \in DOMAIN res.progress :
          /\ i < j
          /\ res.progress[i].point_id > res.progress[j].point_id
          /\ \E a, b \in points :
                /\ a.id = res.progress[i].point_id
                /\ b.id = res.progress[j].point_id
                /\ a.order_num < b.order_num

\* a step that handles a progress request none of whose reads fails
ProgressStep ==
    \/ res'.op = "progress_part000" /\ GetProgress_part000(res'.m, res'.period, {})
    \/ res'.op = "progress_server" /\ GetProgress_server(res'.m, res'.period, {})

\* C13: a progress request for a member id that is in no row of members does
\* not fail: it is answered 200 with one entry for every point of the catalog,
\* each with percentage 0.
C13_NoSuchMember ==
    [][(ProgressStep /\ res'.m \notin MemberIds) =>
          /\ res'.status = 200
          /\ Len(res'.progress) = Cardinality(points)
          /\ {res'.progress[i].point_id : i \in DOMAIN res'.progress} = PointIds
          /\ \A i \in DOMAIN res'.progress : res'.progress[i].percentage = Zero]_vars

\* the progress of member 1 has been asked for after the member was registered
\* and deleted again, and the answer lists every point with 0
C13_Witness ==
    /\ res.op \in {"progress_part000", "progress_server"}
    /\ res.status = 200
    /\ res.m = 1
    /\ members_seq = 1
    /\ MemberIds = {}
    /\ Len(res.progress) = Cardinality(points)
    /\ \A i \in DOMAIN res.progress : res.progress[i].percentage = Zero

\* the reads a progress request performs: part_000 runs one query, server.js
\* reads the catalog and then the rows of every point of the catalog
ReadsOf(op) ==
    IF op = "progress_part000" THEN {CatalogRead} ELSE {CatalogRead} \cup PointIds

\* C14: a progress request is all or nothing: when one of the reads it performs
\* fails, the answer is a single failure (500) without a list; a list is only
\* ever answered whole, with an entry for every point of the catalog.
C14_AllOrNothing ==
    [][\A failed \in ProgFaults :
          (\/ res'.op = "progress_part000"
                 /\ GetProgress_part000(res'.m, res'.period, failed)
           \/ res'.op = "progress_server"
                 /\ GetProgress_server(res'.m, res'.period, failed))
          => IF failed \cap ReadsOf(res'.op) # {}
             THEN res'.status = 500 /\ res'.progress = << >>
             ELSE /\ res'.status = 200
                  /\ {res'.progress[i].point_id : i \in DOMAIN res'.progress} = PointIds]_vars

\* a progress request of server.js has failed as a whole while rows were stored
C14_Witness ==
    /\ res.op = "progress_server"
    /\ res.status = 500
    /\ res.progress = << >>
    /\ daily_records # {}

----------------------------------------------------------------------------
(* SpecRef: every route that reads or writes members, points or               *)
(* daily_records, one request at a time, with few inputs                      *)

RefDates == {D_2024_03_07, NoDate}

InitRef == InitOn({ParseDate(D_2024_03_07)}, DefaultPoints(NumDefaultPoints))

NextRef ==
    \/ \E mobile \in {"m1"} :
          PostRegister(mobile) /\ members_seq' <= 1
    \/ DeleteMember(1)
    \/ \E text \in Texts :
          AddPoint(text) /\ points_seq' <= MaxPointId
    \/ \E id \in PointIdInputs : UpdatePoint(id, "edited")
    \/ \E id \in PointIdInputs : DeletePoint(id)
    \/ \E m \in {1, 2}, p \in PointIdInputs, date \in RefDates,
          completed \in StoreEfforts :
          PostDaily_server(m, p, date, completed)
            /\ Cardinality(daily_records') <= MaxRecords
    \/ \E m \in {1, 2}, p \in PointIdInputs, date \in RefDates,
          completed \in StoreEfforts :
          PostDaily_part000(m, p, date, completed)
            /\ Cardinality(daily_records') <= MaxRecords
    \/ GetProgress_part000(1, "weekly", {})
    \/ GetProgress_server(1, "weekly", {})
    \/ ResetAll
    \/ ClearPoints

SpecRef == InitRef /\ [][NextRef]_vars

----------------------------------------------------------------------------
(* Properties of the references of daily_records *)

\* a step that handles an upsert naming a member or a point that does not exist
DanglingUpsert ==
    \E m \in {1, 2}, p \in PointIdInputs :
        /\ m \notin MemberIds \/ p \notin PointIds
        /\ \E date \in RefDates, completed \in StoreEfforts :
              \/ PostDaily_server(m, p, date, completed)
              \/ PostDaily_part000(m, p, date, completed)

Written == daily_records' \ daily_records
Removed ==
    {r \in daily_records : RowsOf(daily_records', r.member_id, r.point_id, r.date) = {}}

\* C17: a row of daily_records is created or has its effort changed only by
\* an upsert, and a row disappears only as the cascade of a request that
\* deletes its member or its point: no other request writes or removes rows.
C17_Lifecycle ==
    [][/\ Written # {} => res'.op = "daily"
       /\ \A r \in Removed :
             /\ res'.op \in {"delete-member", "delete-point", "clear-points"}
             /\ r.member_id \notin {m.id : m \in members'}
                  \/ r.point_id \notin {q.id : q \in points'}]_vars

----------------------------------------------------------------------------
(* SpecReg: registrations of two clients that overlap between the lookup and  *)
(* the INSERT, and delete-member                                              *)

\* members_id_seq of SpecReg is not advanced past this value
MaxRegMemberId == 3

InitReg == InitOn({ParseDate(D_2024_03_07)}, DefaultPoints(1))

NextReg ==
    \/ \E c \in Clients, mobile \in Mobiles : BeginRegister(c, mobile)
    \/ \E c \in Clients : CompleteRegister(c) /\ members_seq' <= MaxRegMemberId
    \/ \E id \in 1..MaxRegMemberId : DeleteMember(id)

SpecReg == InitReg /\ [][NextReg]_vars

\* a step of a registration for a mobile that a member already has: the lookup
\* of a new request, or the INSERT of a request that was overtaken
RegistersTakenMobile ==
    \/ \E c \in Clients, mobile \in Mobiles :
          MobileTaken(members, mobile) /\ BeginRegister(c, mobile)
    \/ \E c \in Clients :
          /\ pending[c].variant = "register"
          /\ \E r \in members : r.mobile = pending[c].text
          /\ CompleteRegister(c)

\* C18: mobile numbers are unique: however registrations interleave, no two
\* rows of members have the same mobile, and a registration for a mobile that
\* is already registered stores no new member.
C18_UniqueMobile ==
    /\ [](\A r1, r2 \in members : r1.mobile = r2.mobile => r1 = r2)
    /\ [][RegistersTakenMobile => members' = members]_vars

\* two registrations of the same mobile overlapped: both passed the lookup, one
\* INSERT stored the member and the other was rejected
C18_Witness ==
    /\ res.op = "register"
    /\ res.status = 500
    /\ \A c \in Clients : pending[c] = NoReq
    /\ members_seq = 2
    /\ Cardinality(members) = 1

----------------------------------------------------------------------------
(* SpecPts: the catalog under overlapping add-point requests, update-point    *)
(* and delete-point                                                           *)

InitPts == InitOn({ParseDate(D_2024_03_07)}, DefaultPoints(1))

NextPts ==
    \/ \E c \in Clients : BeginAddPoint(c, "added")
    \/ \E c \in Clients : CompleteAddPoint(c) /\ points_seq' <= MaxCatPointId
    \/ \E id \in 1..MaxCatPointId : UpdatePoint(id, "edited")
    \/ \E id \in 1..MaxCatPointId : DeletePoint(id)

SpecPts == InitPts /\ [][NextPts]_vars

\* the catalog without the texts
Numbering(rows) == {[id |-> r.id, order_num |-> r.order_num] : r \in rows}

\* C19: the order value of a point never changes: update-point changes
\* nothing but the text of a point, and no add-point, update-point or
\* delete-point request changes the order value of a point that exists before
\* and after it.
C19_OrderImmutable ==
    [][/\ \A r \in points, q \in points' : r.id = q.id => q.order_num = r.order_num
       /\ res'.op = "update-point" => Numbering(points') = Numbering(points)]_vars

\* a point whose order value is not 1 has been given a new text, in a catalog
\* of several points
C19_Witness ==
    /\ res.op = "update-point"
    /\ Cardinality(points) >= 2
    /\ \E r \in points : r.text = "edited" /\ r.order_num > 1

----------------------------------------------------------------------------
(* SpecAuth: password reset of the admin and of one member, one request at a  *)
(* time, while time passes in steps of five minutes                           *)

\* the clock of SpecAuth is not advanced past this many minutes
MaxClock == 20

Codes == {"111111", "222222"}
AuthKeys == {AdminKey("AmeerMushak"), MemberKey("m1"), MemberKey("m2")}

InitAuth == InitOn({ParseDate(D_2024_03_07)}, DefaultPoints(1))

NextAuth ==
    \/ \E mobile \in {"m1"} :
          PostRegister(mobile) /\ members_seq' <= 1
    \/ \E key \in AuthKeys, code \in Codes : ForgotPassword(key, code)
    \/ \E key \in AuthKeys, code \in Codes : ResetPassword(key, code, "new")
    \/ Tick(5) /\ now' <= MaxClock

SpecAuth == InitAuth /\ [][NextAuth]_vars

\* C20: a reset code expires 15 minutes after it is issued: a reset-password
\* request made after that time is rejected whether or not its code is the
\* stored one, the password stays as it was and the stored code is removed, so
\* that the next reset-password request for the account is told that no reset
\* request exists.
C20_CodeExpires ==
    [][\A key \in AuthKeys, code \in Codes :
          /\ (res'.account = key /\ ForgotPassword(key, code) /\ res'.status = 200)
                => resetCodes'[key].expiresAt = now + FifteenMinutes
          /\ (res'.account = key /\ ResetPassword(key, code, "new")) =>
                /\ (resetCodes[key] # NoCode /\ now > resetCodes[key].expiresAt)
                      => /\ res'.status = 400
                         /\ passwords' = passwords
                         /\ resetCodes'[key] = NoCode
                /\ resetCodes[key] = NoCode
                      => /\ res'.status = 400
                         /\ res'.message = "No reset request found"
                         /\ passwords' = passwords]_vars

\* a reset-password request that carried the stored code has been rejected as
\* expired: the code is gone and the password is the one the account had
C20_Witness ==
    /\ res.op = "reset-password"
    /\ res.message = "Reset code expired"
    /\ res.correct
    /\ resetCodes[res.account] = NoCode
    /\ passwords[res.account] = "initial"

----------------------------------------------------------------------------
\* the code submitted for the account is the one stored for it, and the stored
\* code has not expired
Authorized(key, code) ==
    /\ resetCodes[key] # NoCode
    /\ resetCodes[key].code = code
    /\ now <= resetCodes[key].expiresAt

\* C21: a reset-password request changes the password of an account only when
\* a reset code is stored for that account, the submitted code equals the
\* stored one, which is the code issued last, and the code has not expired; in
\* every other case no password changes, and the codes stored for the other
\* accounts are never touched.
C21_OnlyWithStoredCode ==
    [][\A key \in AuthKeys, code \in Codes :
          /\ (res'.op = "forgot-password" /\ res'.account = key /\ res'.status = 200
                 /\ ForgotPassword(key, code))
                => resetCodes'[key].code = code
          /\ (res'.op = "reset-password" /\ res'.account = key
                 /\ ResetPassword(key, code, "new")) =>
                /\ \A k \in Accounts \ {key} :
                      resetCodes'[k] = resetCodes[k] /\ passwords'[k] = passwords[k]
                /\ ~Authorized(key, code)
                      => res'.status = 400 /\ passwords' = passwords
                /\ res'.status = 200 => Authorized(key, code)]_vars

\* a reset-password request with the stored code has changed the password of
\* its account, while a code is stored for another account
C21_Witness ==
    /\ res.op = "reset-password"
    /\ res.status = 200
    /\ res.correct
    /\ passwords[res.account] = "new"
    /\ \E k \in Accounts \ {res.account} :
          resetCodes[k] # NoCode /\ passwords[k] = "initial"

----------------------------------------------------------------------------
(* SpecRst: reset-password requests of two clients that overlap at their      *)
(* awaits, for the admin and for one member                                   *)

NewPasswords == {"new", "newer"}
RstKeys == {AdminKey("AmeerMushak"), MemberKey("m1")}

InitRst == InitOn({ParseDate(D_2024_03_07)}, DefaultPoints(1))

NextRst ==
    \/ \E mobile \in {"m1"} :
          PostRegister(mobile) /\ members_seq' <= 1
    \/ \E key \in RstKeys, code \in Codes : ForgotPassword(key, code)
    \/ \E c \in Clients, key \in RstKeys, code \in Codes, newPassword \in NewPasswords :
          BeginResetPassword(c, key, code, newPassword)
    \/ \E c \in Clients : WritePassword(c)
    \/ \E c \in Clients : CompleteResetPassword(c)
    \/ Tick(15) /\ now' <= MaxClock

SpecRst == InitRst /\ [][NextRst]_vars

\* the handler of client c has accepted a code and has changed the password of
\* the account; its answer, 200, is still to be sent
Changed(c) ==
    /\ pending[c].variant = "reset-password"
    /\ pending[c].stage = "pool.query"

\* the requests of c1 and c2 were accepted on the same issued code: they name
\* the same account, and no code was issued for it since either was accepted
SameIssuedCode(c1, c2) ==
    /\ pending[c1].account = pending[c2].account
    /\ ~pending[c1].superseded
    /\ ~pending[c2].superseded

\* C22: a reset code is single-use: however reset-password requests overlap at
\* the hashing of the password and at the write of the password, no issued
\* code has authorized the password changes of two requests.
C22_SingleUse ==
    \A c1, c2 \in Clients :
        (c1 # c2 /\ Changed(c1) /\ Changed(c2)) => ~SameIssuedCode(c1, c2)

----------------------------------------------------------------------------
(* SpecSafe: registrations whose queries may fail, answered by server.js and  *)
(* by the second program of part_000                                         *)

\* members_id_seq is not advanced past this value in SpecSafe
MaxSafeMemberId == 4

InitSafe == InitOn({ParseDate(D_2024_03_07)}, DefaultPoints(1))

NextSafe ==
    \/ \E mobile \in Mobiles, failed \in SUBSET RegisterQueries :
          PostRegister_server(mobile, failed) /\ members_seq' <= MaxSafeMemberId
    \/ \E mobile \in Mobiles, failed \in SUBSET RegisterQueries :
          PostRegister_safeQuery(mobile, failed) /\ members_seq' <= MaxSafeMemberId
    \/ \E id \in 1..MaxSafeMemberId : DeleteMember(id)

SpecSafe == InitSafe /\ [][NextSafe]_vars

\* the step is a registration of the mobile, with these queries failing
Registers(mobile, failed) ==
    \/ PostRegister_server(mobile, failed)
    \/ PostRegister_safeQuery(mobile, failed)

\* C23: a registration answers 201 only if a new member row was stored, and a
\* registration whose INSERT fails answers with an error, never 201.
C23_CreatedOnlyIfStored ==
    [][\A mobile \in Mobiles, failed \in SUBSET RegisterQueries :
          (res'.op = "register" /\ Registers(mobile, failed)) =>
              /\ res'.status = 201 =>
                    \E r \in members' \ members : r.mobile = mobile
              /\ "INSERT" \in failed => res'.status \in {400, 500}]_vars

=============================================================================
